---- MODULE Spec2Model ----
(***************************************************************************)
(* Model of addressBook.py: the field validators (Phone, Birthday), the    *)
(* Record, the AddressBook with get_upcoming_birthdays, and the command    *)
(* handlers add_contact, change_contact, add_birthday and birthdays.       *)
(*                                                                         *)
(* A string is a sequence of one-character strings.  A date is a record    *)
(* [year, month, day]; dates are compared and shifted through their        *)
(* proleptic Gregorian ordinal, as datetime.date does.  The address book   *)
(* is a sequence of records in dict insertion order.                       *)
(***************************************************************************)
EXTENDS Integers, Sequences, FiniteSets

\* ------------------------------------------------------------------ bounds
\* the number of phones the whole book may hold
MaxPhones == 2

\* --------------------------------------------------------- program constants
PhoneLen == 10
WindowDays == 7
Saturday == 5
Sunday == 6
SaturdayShift == 2
SundayShift == 1

\* ------------------------------------------------------------------ strings
RECURSIVE Rep(_, _)
Rep(n, c) == IF n = 0 THEN <<>> ELSE Append(Rep(n - 1, c), c)

AsciiDigits == <<"0", "1", "2", "3", "4", "5", "6", "7", "8", "9">>

IsDigitChar(c) == \E i \in 1..Len(AsciiDigits) : AsciiDigits[i] = c

DigitVal(c) == (CHOOSE i \in 1..Len(AsciiDigits) : AsciiDigits[i] = c) - 1

\* str.isdigit(): at least one character, and every character a digit
isdigit(s) == Len(s) > 0 /\ \A i \in 1..Len(s) : IsDigitChar(s[i])

RECURSIVE Num(_)
Num(s) == IF s = <<>> THEN 0
          ELSE 10 * Num(SubSeq(s, 1, Len(s) - 1)) + DigitVal(s[Len(s)])

\* the fields of s between the separators sep (str.split(sep))
RECURSIVE SplitAcc(_, _, _, _)
SplitAcc(s, sep, cur, acc) ==
    IF s = <<>> THEN Append(acc, cur)
    ELSE IF Head(s) = sep THEN SplitAcc(Tail(s), sep, <<>>, Append(acc, cur))
    ELSE SplitAcc(Tail(s), sep, Append(cur, Head(s)), acc)

Split(s, sep) == SplitAcc(s, sep, <<>>, <<>>)

\* ------------------------------------------------------------------ messages
MsgBadPhone == "Phone must contain exactly 10 digits"
MsgBadDate == "Invalid date format. Use DD.MM.YYYY"
MsgOldPhoneNotFound == "Old phone not found"
MsgContactNotFound == "Contact not found."
MsgDayOutOfRange == "day is out of range for month"
MsgAdded == "Contact added."
MsgUpdated == "Contact updated."
MsgPhoneUpdated == "Phone updated."
MsgBirthdayAdded == "Birthday added."
MsgNoBirthdays == "No birthdays in the next 7 days."
MsgUpcoming == "Upcoming birthdays:"
NoError == ""

\* -------------------------------------------------------------------- dates
Date(y, m, d) == [year |-> y, month |-> m, day |-> d]

NoDay == Date(0, 0, 0)

IsLeap(y) == y % 4 = 0 /\ (y % 100 # 0 \/ y % 400 = 0)

DaysInMonth(y, m) ==
    IF m = 2 THEN (IF IsLeap(y) THEN 29 ELSE 28)
    ELSE IF m \in {4, 6, 9, 11} THEN 30 ELSE 31

ValidDate(y, m, d) ==
    /\ y \in 1..9999
    /\ m \in 1..12
    /\ d >= 1
    /\ d <= DaysInMonth(y, m)

DaysBeforeYear(y) ==
    (y - 1) * 365 + ((y - 1) \div 4) - ((y - 1) \div 100) + ((y - 1) \div 400)

RECURSIVE DaysBeforeMonth(_, _)
DaysBeforeMonth(y, m) ==
    IF m = 1 THEN 0 ELSE DaysBeforeMonth(y, m - 1) + DaysInMonth(y, m - 1)

\* date.toordinal(): 0001-01-01 is day 1
ToOrdinal(dt) == DaysBeforeYear(dt.year) + DaysBeforeMonth(dt.year, dt.month) + dt.day

\* date.weekday() on an ordinal: Monday is 0, Sunday is 6
weekday(ord) == (ord + 6) % 7

\* date.replace(year=y): ok is FALSE where Python raises ValueError
replace(dt, y) ==
    [ok |-> ValidDate(y, dt.month, dt.day), value |-> Date(y, dt.month, dt.day)]

\* ------------------------------------------------------------------- fields
\* a validator that checks the length only
Phone_validate_LengthOnly(value) == Len(value) = PhoneLen

\* Phone._validate: TRUE where it returns, FALSE where it raises ValueError
Phone_validate(value) == isdigit(value) /\ Len(value) = PhoneLen

\* Phone(value)
Phone(value) ==
    IF Phone_validate(value) THEN [err |-> NoError, value |-> value]
    ELSE [err |-> MsgBadPhone, value |-> <<>>]

\* datetime.strptime(value, "%d.%m.%Y").date()
strptime(value) ==
    LET f == Split(value, ".")
        wellFormed ==
            /\ Len(f) = 3
            /\ isdigit(f[1]) /\ Len(f[1]) <= 2 /\ Num(f[1]) \in 1..31
            /\ isdigit(f[2]) /\ Len(f[2]) <= 2 /\ Num(f[2]) \in 1..12
            /\ isdigit(f[3]) /\ Len(f[3]) = 4
    IN  IF wellFormed /\ ValidDate(Num(f[3]), Num(f[2]), Num(f[1]))
        THEN [ok |-> TRUE, value |-> Date(Num(f[3]), Num(f[2]), Num(f[1]))]
        ELSE [ok |-> FALSE, value |-> NoDay]

\* Birthday(value)
Birthday(value) ==
    LET p == strptime(value)
    IN  IF p.ok THEN [err |-> NoError, value |-> p.value]
        ELSE [err |-> MsgBadDate, value |-> NoDay]

\* ------------------------------------------------------------------- Record
\* phones: sequence of phone strings; birthday: <<>> (None) or <<date>>
Record(name) == [name |-> name, phones |-> <<>>, birthday |-> <<>>]

\* index of the first phone equal to phone, 0 when there is none
FirstIndex(phones, phone) ==
    IF \E i \in 1..Len(phones) : phones[i] = phone
    THEN CHOOSE i \in 1..Len(phones) :
            /\ phones[i] = phone
            /\ \A j \in 1..(i - 1) : phones[j] # phone
    ELSE 0

RemoveAt(s, i) == SubSeq(s, 1, i - 1) \o SubSeq(s, i + 1, Len(s))

\* an add_phone that puts the new phone first
Record_add_phone_Prepend(rec, phone) ==
    LET ph == Phone(phone)
    IN  IF ph.err = NoError
        THEN [err |-> NoError, rec |-> [rec EXCEPT !.phones = <<ph.value>> \o @]]
        ELSE [err |-> ph.err, rec |-> rec]

Record_add_phone(rec, phone) ==
    LET ph == Phone(phone)
    IN  IF ph.err = NoError
        THEN [err |-> NoError, rec |-> [rec EXCEPT !.phones = Append(@, ph.value)]]
        ELSE [err |-> ph.err, rec |-> rec]

Record_remove_phone(rec, phone) ==
    LET i == FirstIndex(rec.phones, phone)
    IN  IF i # 0
        THEN [found |-> TRUE, rec |-> [rec EXCEPT !.phones = RemoveAt(@, i)]]
        ELSE [found |-> FALSE, rec |-> rec]

\* an edit_phone that does not stop at the first match
Record_edit_phone_All(rec, old_phone, new_phone) ==
    IF FirstIndex(rec.phones, old_phone) = 0 THEN [err |-> MsgOldPhoneNotFound, rec |-> rec]
    ELSE IF ~Phone_validate(new_phone) THEN [err |-> MsgBadPhone, rec |-> rec]
    ELSE [err |-> NoError,
          rec |-> [rec EXCEPT !.phones =
                      [k \in 1..Len(@) |-> IF @[k] = old_phone THEN new_phone ELSE @[k]]]]

Record_edit_phone(rec, old_phone, new_phone) ==
    LET i == FirstIndex(rec.phones, old_phone)
    IN  IF i = 0 THEN [err |-> MsgOldPhoneNotFound, rec |-> rec]
        ELSE IF ~Phone_validate(new_phone) THEN [err |-> MsgBadPhone, rec |-> rec]
        ELSE [err |-> NoError, rec |-> [rec EXCEPT !.phones[i] = new_phone]]

\* the value returned, as a 0- or 1-element sequence (None or the value)
Record_find_phone(rec, phone) ==
    LET i == FirstIndex(rec.phones, phone)
    IN  IF i = 0 THEN <<>> ELSE <<rec.phones[i]>>

Record_add_birthday(rec, birthday_str) ==
    LET b == Birthday(birthday_str)
    IN  IF b.err = NoError
        THEN [err |-> NoError, rec |-> [rec EXCEPT !.birthday = <<b.value>>]]
        ELSE [err |-> b.err, rec |-> rec]

\* -------------------------------------------------------------- AddressBook
\* position of the entry keyed by name, 0 when there is none
IndexOf(data, name) ==
    IF \E i \in 1..Len(data) : data[i].name = name
    THEN CHOOSE i \in 1..Len(data) : data[i].name = name
    ELSE 0

\* AddressBook.find: <<>> (None) or <<record>>
find(data, name) ==
    IF IndexOf(data, name) = 0 THEN <<>> ELSE <<data[IndexOf(data, name)]>>

\* an add_record that keeps the record already stored under the name
AddressBook_add_record_KeepFirst(data, record) ==
    IF IndexOf(data, record.name) = 0 THEN Append(data, record) ELSE data

\* self.data[record.name.value] = record: an existing key keeps its position
AddressBook_add_record(data, record) ==
    LET i == IndexOf(data, record.name)
    IN  IF i = 0 THEN Append(data, record) ELSE [data EXCEPT ![i] = record]

\* self.data.pop(name, None)
AddressBook_delete(data, name) ==
    LET i == IndexOf(data, name)
    IN  IF i = 0 THEN data ELSE RemoveAt(data, i)

\* result[day].append(name) on a defaultdict(list) kept in insertion order
DictAppend(result, day, name) ==
    IF \E i \in 1..Len(result) : result[i].day = day
    THEN LET i == CHOOSE k \in 1..Len(result) : result[k].day = day
         IN  [result EXCEPT ![i].names = Append(@, name)]
    ELSE Append(result, [day |-> day, names |-> <<name>>])

\* insertion of item into a sequence sorted by day, after the equal days
RECURSIVE InsertSorted(_, _)
InsertSorted(sorted, item) ==
    IF sorted = <<>> THEN <<item>>
    ELSE IF item.day < Head(sorted).day THEN <<item>> \o sorted
    ELSE <<Head(sorted)>> \o InsertSorted(Tail(sorted), item)

RECURSIVE SortAcc(_, _)
SortAcc(items, acc) ==
    IF items = <<>> THEN acc ELSE SortAcc(Tail(items), InsertSorted(acc, Head(items)))

\* a result left in the order the days were first met
SortByDay_Unsorted(items) == items

\* sorted(result.items(), key=lambda x: x[0]): stable, ascending by day
SortByDay(items) == SortAcc(items, <<>>)

\* a shift that moves a Saturday by one day only
CongratulationDay_SaturdayPlusOne(day) ==
    IF weekday(day) = Saturday THEN day + SundayShift
    ELSE IF weekday(day) = Sunday THEN day + SundayShift
    ELSE day

\* no shift at all
CongratulationDay_NoShift(day) == day

\* the congratulation day of a birthday that falls on ordinal day
CongratulationDay(day) ==
    IF weekday(day) = Saturday THEN day + SaturdayShift
    ELSE IF weekday(day) = Sunday THEN day + SundayShift
    ELSE day

\* the loop over self.data.values(); ok is FALSE where replace() raises
RECURSIVE UpcomingLoop(_, _, _)
UpcomingLoop(recs, t, result) ==
    IF recs = <<>> THEN [ok |-> TRUE, items |-> result]
    ELSE
      LET rec == Head(recs)
      IN  IF rec.birthday = <<>> THEN UpcomingLoop(Tail(recs), t, result)
          ELSE
            LET bd == rec.birthday[1]
                thisYear == replace(bd, t.year)
                nextYear == replace(bd, t.year + 1)
                today_ == ToOrdinal(t)
                end == today_ + WindowDays
            IN  IF ~thisYear.ok THEN [ok |-> FALSE, items |-> <<>>]
                ELSE IF ToOrdinal(thisYear.value) < today_ /\ ~nextYear.ok
                     THEN [ok |-> FALSE, items |-> <<>>]
                ELSE
                  LET birthday_this_year ==
                          IF ToOrdinal(thisYear.value) < today_
                          THEN ToOrdinal(nextYear.value)
                          ELSE ToOrdinal(thisYear.value)
                  IN  IF today_ <= birthday_this_year /\ birthday_this_year <= end
                      THEN UpcomingLoop(Tail(recs), t,
                              DictAppend(result, CongratulationDay(birthday_this_year),
                                         rec.name))
                      ELSE UpcomingLoop(Tail(recs), t, result)

\* AddressBook.get_upcoming_birthdays with date.today() = t
get_upcoming_birthdays(data, t) ==
    LET r == UpcomingLoop(data, t, <<>>)
    IN  IF r.ok THEN [ok |-> TRUE, items |-> SortByDay(r.items)]
        ELSE [ok |-> FALSE, items |-> <<>>]

\* ------------------------------------------------------------------- inputs
Names == {"name", "ann"}

Phone1 == Rep(PhoneLen, "1")
Phone2 == Rep(PhoneLen, "2")
PhoneShort == Rep(PhoneLen - 1, "1")
PhoneLong == Rep(PhoneLen + 1, "1")
PhoneAlpha == Append(Rep(PhoneLen - 1, "1"), "a")

ValidPhones == {Phone1, Phone2}
PhoneInputs == ValidPhones \cup {PhoneShort, PhoneLong, PhoneAlpha}

Str_15_06_1990 == <<"1", "5", ".", "0", "6", ".", "1", "9", "9", "0">>
Str_16_06_1988 == <<"1", "6", ".", "0", "6", ".", "1", "9", "8", "8">>
Str_14_6_1985 == <<"1", "4", ".", "6", ".", "1", "9", "8", "5">>
Str_29_02_2000 == <<"2", "9", ".", "0", "2", ".", "2", "0", "0", "0">>
Str_02_01_1995 == <<"0", "2", ".", "0", "1", ".", "1", "9", "9", "5">>
Str_29_02_2001 == <<"2", "9", ".", "0", "2", ".", "2", "0", "0", "1">>
Str_1990_06_15 == <<"1", "9", "9", "0", "-", "0", "6", "-", "1", "5">>

BirthdayInputs ==
    {Str_15_06_1990, Str_16_06_1988, Str_14_6_1985, Str_29_02_2000,
     Str_02_01_1995, Str_29_02_2001, Str_1990_06_15}

\* the values date.today() takes
TodayInputs ==
    {Date(2024, 6, 10), Date(2024, 6, 7), Date(2024, 6, 8), Date(2024, 6, 16),
     Date(2023, 12, 28), Date(2024, 2, 25), Date(2024, 3, 1)}

\* records built by Record(name), add_phone and add_birthday before add_record
RecordInputs ==
    {[name |-> n, phones |-> ps, birthday |-> b] :
        n \in Names,
        ps \in {<<>>, <<Phone1>>, <<Phone2, Phone1>>},
        b \in {<<>>, <<Date(1985, 6, 14)>>}}

\* -------------------------------------------------------------------- state
VARIABLES book, op, ret, today, upcoming

vars == <<book, op, ret, today, upcoming>>

\* main(): book = AddressBook()
Init ==
    /\ book = <<>>
    /\ op = "main"
    /\ ret = NoError
    /\ today = NoDay
    /\ upcoming = <<>>

\* the loop of main() is at input(): no command is running
AtPrompt == op = "main"

\* a command other than birthdays does not call date.today()
NoQuery == UNCHANGED <<today, upcoming>>

RECURSIVE TotalPhones(_)
TotalPhones(data) ==
    IF data = <<>> THEN 0 ELSE Len(Head(data).phones) + TotalPhones(Tail(data))

add_contact(name, phone) ==
    LET found == find(book, name)
        record == IF found = <<>> THEN Record(name) ELSE found[1]
        data1 == IF found = <<>> THEN AddressBook_add_record(book, record) ELSE book
        msg == IF found = <<>> THEN MsgAdded ELSE MsgUpdated
        r == Record_add_phone(record, phone)
    IN  /\ AtPrompt
        /\ TotalPhones(book) < MaxPhones
        /\ book' = [data1 EXCEPT ![IndexOf(data1, name)] = r.rec]
        /\ ret' = IF r.err # NoError THEN r.err ELSE msg
        /\ op' = "add_contact"
        /\ NoQuery

change_contact(name, old_phone, new_phone) ==
    LET found == find(book, name)
    IN  /\ AtPrompt
        /\ IF found = <<>>
           THEN book' = book /\ ret' = MsgContactNotFound
           ELSE LET r == Record_edit_phone(found[1], old_phone, new_phone)
                IN  /\ book' = [book EXCEPT ![IndexOf(book, name)] = r.rec]
                    /\ ret' = IF r.err # NoError THEN r.err ELSE MsgPhoneUpdated
        /\ op' = "change_contact"
        /\ NoQuery

add_birthday(name, birthday_str) ==
    LET found == find(book, name)
        record == IF found = <<>> THEN Record(name) ELSE found[1]
        data1 == IF found = <<>> THEN AddressBook_add_record(book, record) ELSE book
        r == Record_add_birthday(record, birthday_str)
    IN  /\ AtPrompt
        /\ book' = [data1 EXCEPT ![IndexOf(data1, name)] = r.rec]
        /\ ret' = IF r.err # NoError THEN r.err ELSE MsgBirthdayAdded
        /\ op' = "add_birthday"
        /\ NoQuery

\* the birthdays command on a day t
birthdays(t) ==
    LET r == get_upcoming_birthdays(book, t)
    IN  /\ AtPrompt
        /\ op' = "birthdays"
        /\ today' = t
        /\ upcoming' = r.items
        /\ ret' = IF ~r.ok THEN MsgDayOutOfRange
                  ELSE IF r.items = <<>> THEN MsgNoBirthdays ELSE MsgUpcoming
        /\ UNCHANGED book

\* book.find(name).remove_phone(phone)
remove_phone(name, phone) ==
    LET found == find(book, name)
    IN  /\ AtPrompt
        /\ found # <<>>
        /\ LET r == Record_remove_phone(found[1], phone)
           IN  /\ book' = [book EXCEPT ![IndexOf(book, name)] = r.rec]
               /\ ret' = IF r.found THEN "True" ELSE "False"
        /\ op' = "remove_phone"
        /\ NoQuery

add_record(record) ==
    /\ AtPrompt
    /\ TotalPhones(AddressBook_add_record(book, record)) <= MaxPhones
    /\ book' = AddressBook_add_record(book, record)
    /\ ret' = "None"
    /\ op' = "add_record"
    /\ NoQuery

delete(name) ==
    /\ AtPrompt
    /\ book' = AddressBook_delete(book, name)
    /\ ret' = "None"
    /\ op' = "delete"
    /\ NoQuery

\* the value returned is printed (or dropped) and the loop is back at input()
print_result ==
    /\ ~AtPrompt
    /\ op' = "main"
    /\ ret' = NoError
    /\ today' = NoDay
    /\ upcoming' = <<>>
    /\ UNCHANGED book

Next ==
    \/ \E n \in Names, p \in PhoneInputs : add_contact(n, p)
    \/ \E n \in Names, o \in ValidPhones, p \in PhoneInputs : change_contact(n, o, p)
    \/ \E n \in Names, s \in BirthdayInputs : add_birthday(n, s)
    \/ \E t \in TodayInputs : birthdays(t)
    \/ \E n \in Names, p \in ValidPhones : remove_phone(n, p)
    \/ \E r \in RecordInputs : add_record(r)
    \/ \E n \in Names : delete(n)
    \/ print_result

Spec == Init /\ [][Next]_vars

TypeOK ==
    /\ \A i \in 1..Len(book) : book[i].name \in Names
    /\ Len(book) <= Cardinality(Names)

\* =================================================================== claims
Has(data, n) == find(data, n) # <<>>

PhonesOf(data, n) == IF Has(data, n) THEN find(data, n)[1].phones ELSE <<>>

BirthdayOf(data, n) == IF Has(data, n) THEN find(data, n)[1].birthday ELSE <<>>

Queried == op = "birthdays"

Completed == Queried /\ ret # MsgDayOutOfRange

\* the days on which the month/day of bd occurs in the year of t or the next
Occurrences(bd, t) ==
    {ToOrdinal(Date(y, bd.month, bd.day)) :
        y \in {yy \in {t.year, t.year + 1} : ValidDate(yy, bd.month, bd.day)}}

\* the next occurrence of bd on or after t, as a set of at most one day
NextOccurrence(bd, t) ==
    {o \in Occurrences(bd, t) :
        /\ o >= ToOrdinal(t)
        /\ \A o2 \in Occurrences(bd, t) : o2 >= ToOrdinal(t) => o <= o2}

\* contact n has a birthday whose next occurrence lies in [t, t+7]
Qualifies(data, n, t) ==
    /\ BirthdayOf(data, n) # <<>>
    /\ \E o \in NextOccurrence(BirthdayOf(data, n)[1], t) : o <= ToOrdinal(t) + 7

\* the number of times n is listed in the result
RECURSIVE Listings(_, _)
Listings(items, n) ==
    IF items = <<>> THEN 0
    ELSE Cardinality({i \in 1..Len(Head(items).names) : Head(items).names[i] = n})
         + Listings(Tail(items), n)

\* C1: after every birthdays query, on every book and day, a contact is listed
\* exactly once if its birthday's next occurrence lies in [today, today+7],
\* and is not listed otherwise.
C1_ListedIffInWindow ==
    Queried => \A n \in Names :
        Listings(upcoming, n) = IF Qualifies(book, n, today) THEN 1 ELSE 0

\* The same statement for the queries that return a mapping.
CompletedListedIffInWindow ==
    Completed => \A n \in Names :
        Listings(upcoming, n) = IF Qualifies(book, n, today) THEN 1 ELSE 0

\* C2: every listed contact is listed under its candidate day plus 2 when the
\* candidate is a Saturday, plus 1 when it is a Sunday, and the candidate itself
\* otherwise; the candidate lies in [today, today+7], so the key is at most
\* today+9; and no key is a Saturday or a Sunday.
C2_WeekendShift ==
    Queried => \A i \in 1..Len(upcoming) : \A k \in 1..Len(upcoming[i].names) :
        LET n == upcoming[i].names[k]
            key == upcoming[i].day
        IN  /\ BirthdayOf(book, n) # <<>>
            /\ \E c \in NextOccurrence(BirthdayOf(book, n)[1], today) :
                  /\ ToOrdinal(today) <= c /\ c <= ToOrdinal(today) + 7
                  /\ key = c + (IF weekday(c) = 5 THEN 2 ELSE IF weekday(c) = 6 THEN 1 ELSE 0)
            /\ weekday(key) \notin {5, 6}
            /\ key <= ToOrdinal(today) + 9

\* a Saturday candidate on today+7 is listed under today+9
C2_Witness ==
    /\ Queried
    /\ \E i \in 1..Len(upcoming) : upcoming[i].day = ToOrdinal(today) + 9

SingleContact(bd) ==
    /\ Len(book) = 1
    /\ book[1].birthday = <<bd>>

\* C3 as stated: on 2024-06-10, a book with the single contact born 15.06.1990
\* yields {2024-06-15: [name]}.
C3_AsClaimed ==
    (Queried /\ today = Date(2024, 6, 10) /\ SingleContact(Date(1990, 6, 15)))
        => upcoming = <<[day |-> ToOrdinal(Date(2024, 6, 15)), names |-> <<book[1].name>>]>>

\* C3 amended: on 2024-06-10, a book with the single contact born 15.06.1990
\* yields {2024-06-17: [name]}, since 2024-06-15 is a Saturday.
C3_ShiftedToMonday ==
    (Queried /\ today = Date(2024, 6, 10) /\ SingleContact(Date(1990, 6, 15)))
        => upcoming = <<[day |-> ToOrdinal(Date(2024, 6, 17)), names |-> <<book[1].name>>]>>

C3_Witness ==
    /\ Queried /\ today = Date(2024, 6, 10) /\ SingleContact(Date(1990, 6, 15))
    /\ book[1].name = "name"
    /\ Len(upcoming) = 1

TenDigits(s) ==
    /\ Len(s) = 10
    /\ \A i \in 1..Len(s) : s[i] \in {"0", "1", "2", "3", "4", "5", "6", "7", "8", "9"}

AllStoredTenDigits ==
    \A i \in 1..Len(book) : \A k \in 1..Len(book[i].phones) : TenDigits(book[i].phones[k])

StoresNothing == \A m \in Names : PhonesOf(book', m) = PhonesOf(book, m)

C5_EditPhone ==
    [][\A n \in Names, o \in ValidPhones, p \in PhoneInputs :
        (op' = "change_contact" /\ Has(book, n) /\ change_contact(n, o, p)) =>
            LET ps == PhonesOf(book, n)
                qs == PhonesOf(book', n)
                stored == \E k \in 1..Len(ps) : ps[k] = o
            IN  IF ~stored THEN ret' = MsgOldPhoneNotFound /\ qs = ps
                ELSE IF ~TenDigits(p) THEN ret' = MsgBadPhone /\ qs = ps
                ELSE /\ ret' = MsgPhoneUpdated
                     /\ Len(qs) = Len(ps)
                     /\ \E i \in 1..Len(ps) :
                          /\ ps[i] = o
                          /\ \A j \in 1..(i - 1) : ps[j] # o
                          /\ qs[i] = p
                          /\ \A j \in 1..Len(ps) : j # i => qs[j] = ps[j]
                     /\ Record_find_phone(find(book', n)[1], p) = <<p>>]_vars

\* the first of two equal phones was edited, the second kept
C5_Witness ==
    /\ op = "change_contact"
    /\ ret = MsgPhoneUpdated
    /\ \E i \in 1..Len(book) : book[i].phones = <<Phone2, Phone1>>

\* C6: the result is strictly ascending by day, and the names under one day
\* are in the order of their records in the book.
C6_Ordered ==
    Queried =>
        /\ \A i \in 1..Len(upcoming), j \in 1..Len(upcoming) :
              i < j => upcoming[i].day < upcoming[j].day
        /\ \A i \in 1..Len(upcoming) :
              \A k \in 1..Len(upcoming[i].names), l \in 1..Len(upcoming[i].names) :
                  k < l => IndexOf(book, upcoming[i].names[k])
                              < IndexOf(book, upcoming[i].names[l])

\* two days are listed, the later one for the record added first
C6_Witness ==
    /\ Queried
    /\ Len(upcoming) = 2
    /\ IndexOf(book, upcoming[2].names[1]) < IndexOf(book, upcoming[1].names[1])

\* C7: add_contact(name, phone) with a valid phone creates the contact with
\* that one phone when the name is absent, and otherwise appends the phone to
\* the contact's phones, keeping the earlier phones, the birthday, and every
\* other contact.
C7_AddContactAppends ==
    [][\A n \in Names, p \in ValidPhones :
        (op' = "add_contact" /\ add_contact(n, p)) =>
            /\ PhonesOf(book', n) = Append(PhonesOf(book, n), p)
            /\ BirthdayOf(book', n) = BirthdayOf(book, n)
            /\ Has(book', n)
            /\ ret' = IF Has(book, n) THEN MsgUpdated ELSE MsgAdded
            /\ \A m \in Names \ {n} : find(book', m) = find(book, m)
            /\ Len(book') = IF Has(book, n) THEN Len(book) ELSE Len(book) + 1]_vars

\* a later call appended a duplicate to a contact that has a birthday
C7_Witness ==
    /\ op = "add_contact"
    /\ ret = MsgUpdated
    /\ \E i \in 1..Len(book) :
          /\ book[i].phones = <<Phone1, Phone1>>
          /\ book[i].birthday # <<>>

\* C8: add_record of a record whose name is already in the book leaves exactly
\* one entry for the name, which is the new record, and leaves every entry
\* under another name unchanged.
C8_AddRecordOverwrites ==
    [][\A r \in RecordInputs :
        (op' = "add_record" /\ Has(book, r.name) /\ add_record(r)) =>
            /\ Cardinality({i \in 1..Len(book') : book'[i].name = r.name}) = 1
            /\ find(book', r.name) = <<r>>
            /\ Len(book') = Len(book)
            /\ \A m \in Names \ {r.name} : find(book', m) = find(book, m)]_vars

\* add_record has just written the first entry of a two-entry book: a new name
\* would have gone to the end, so the record replaced an earlier one
C8_Witness ==
    /\ op = "add_record"
    /\ Len(book) = 2
    /\ book[2] \notin RecordInputs
    /\ book[1].phones # <<>>

\* C9: every birthdays query completes and returns a mapping.
C9_QueryCompletes == Queried => ret \in {MsgUpcoming, MsgNoBirthdays}

\* C10: a command that fails with InvalidFormat on the phone or the date, or
\* with NotFound on the contact, leaves the address book as it was.
C10_FailureChangesNothing ==
    [][(/\ op' \in {"add_contact", "add_birthday", "change_contact"}
        /\ ret' \in {MsgBadPhone, MsgBadDate, MsgContactNotFound})
       => book' = book]_vars

====
